---- MODULE Spec2Model ----
(***************************************************************************)
(* Model of the mcp-obsidian server (src/index.ts): the path confinement   *)
(* check validatePath and the four tool handlers built on it               *)
(* (obsidian_read_notes, obsidian_search_notes, obsidian_read_notes_dir,   *)
(* obsidian_write_note), over a small POSIX file system with symbolic      *)
(* links.                                                                  *)
(*                                                                         *)
(* A string is a sequence of one-character strings, so that split,         *)
(* startsWith, endsWith, replace and toLowerCase are computed character by *)
(* character as the code computes them.  A file-system location is a       *)
(* sequence of names (the components of its absolute path).                *)
(***************************************************************************)
EXTENDS Integers, Sequences, FiniteSets, TLC

VARIABLES
    files,      \* regular files: location -> stored bytes
    pc,         \* "idle" | "reading" | "searching" | "listing" | "responded" | "validating" | "validated"
    req,        \* the request being served
    branches,   \* obsidian_read_notes: one record per element of paths
    stack,      \* search / listDirs: the recursion stack
    results,    \* search: results, listDirs: dirs
    visits,     \* how many times each directory has been listed by the current walk
    completed,  \* obsidian_read_notes: the branches in the order they completed
    resp,       \* the response returned by the handler
    io,         \* the file reads and writes the current request has made
    lastWrite   \* path and content of the last successful obsidian_write_note

vars == <<files, pc, req, branches, stack, results, visits, completed, resp, io, lastWrite>>

----------------------------------------------------------------------------
(* Bounds of the model *)

\* at most this many path components in a candidate given to validatePath
MaxSegs == 3
\* at most this many elements in the paths argument of obsidian_read_notes
MaxPaths == 3

----------------------------------------------------------------------------
(* Strings *)

Sep == "/"

\* strings, and sequences of strings (the components of a path)
Str == Seq(STRING)
Loc == Seq(Str)

\* String.prototype.startsWith
StartsWith(s, p) == Len(p) <= Len(s) /\ SubSeq(s, 1, Len(p)) = p

\* String.prototype.endsWith
EndsWith(s, p) == Len(p) <= Len(s) /\ SubSeq(s, Len(s) - Len(p) + 1, Len(s)) = p

\* the positions where p occurs in s
Occurrences(s, p) == {i \in 1..(Len(s) - Len(p) + 1) : SubSeq(s, i, i + Len(p) - 1) = p}

\* String.prototype.includes
Includes(s, p) == Occurrences(s, p) # {}

Min(S) == CHOOSE x \in S : \A y \in S : x <= y

\* String.prototype.replace(p, "") with a string pattern: the first occurrence only
ReplaceFirst(s, p) ==
    IF ~Includes(s, p) THEN s
    ELSE LET i == Min(Occurrences(s, p))
         IN  SubSeq(s, 1, i - 1) \o SubSeq(s, i + Len(p), Len(s))

LowerChar(c) ==
    CASE c = "A" -> "a"
      [] c = "V" -> "v"
      [] OTHER -> c

\* String.prototype.toLowerCase
ToLowerCase[s \in Str] == [i \in 1..Len(s) |-> LowerChar(s[i])]

\* String.prototype.split(path.sep)
Split[s \in Str] ==
    IF ~Includes(s, <<Sep>>) THEN <<s>>
    ELSE LET i == Min(Occurrences(s, <<Sep>>))
         IN  <<SubSeq(s, 1, i - 1)>> \o Split[SubSeq(s, i + 1, Len(s))]

\* Array.prototype.join(path.sep)
JoinSep[segs \in Loc] ==
    IF segs = <<>> THEN <<>>
    ELSE IF Len(segs) = 1 THEN segs[1]
    ELSE segs[1] \o <<Sep>> \o JoinSep[Tail(segs)]

----------------------------------------------------------------------------
(* node:path, POSIX flavour *)

Dot == <<".">>
DotDot == <<".", ".">>

IsAbsolute(p) == Len(p) > 0 /\ p[1] = Sep

\* normalizeString: drops "" and ".", resolves ".." against what precedes it;
\* above the root ".." is dropped, in a relative path it is kept
NormalizeSegs[todo \in Loc, done \in Loc, allowAbove \in BOOLEAN] ==
    IF todo = <<>> THEN done
    ELSE LET s == Head(todo)
         IN  IF s = <<>> \/ s = Dot THEN NormalizeSegs[Tail(todo), done, allowAbove]
             ELSE IF s = DotDot
               THEN IF done # <<>> /\ done[Len(done)] # DotDot
                      THEN NormalizeSegs[Tail(todo), SubSeq(done, 1, Len(done) - 1), allowAbove]
                    ELSE IF allowAbove
                      THEN NormalizeSegs[Tail(todo), Append(done, s), allowAbove]
                    ELSE NormalizeSegs[Tail(todo), done, allowAbove]
             ELSE NormalizeSegs[Tail(todo), Append(done, s), allowAbove]

\* path.normalize, given the normalized components joined: a relative path
\* that normalizes to nothing is ".", a trailing separator is kept
Normalized(p, body) ==
    IF IsAbsolute(p)
      THEN <<Sep>> \o body \o (IF body # <<>> /\ p[Len(p)] = Sep THEN <<Sep>> ELSE <<>>)
    ELSE IF body = <<>> THEN (IF p[Len(p)] = Sep THEN <<".", Sep>> ELSE Dot)
    ELSE body \o (IF p[Len(p)] = Sep THEN <<Sep>> ELSE <<>>)

\* path.normalize
Normalize[p \in Str] ==
    IF p = <<>> THEN Dot
    ELSE Normalized(p, JoinSep[NormalizeSegs[Split[p], <<>>, ~IsAbsolute(p)]])

\* path.join of two strings
PathJoin[a \in Str, b \in Str] ==
    IF a = <<>> /\ b = <<>> THEN Dot
    ELSE IF a = <<>> THEN Normalize[b]
    ELSE IF b = <<>> THEN Normalize[a]
    ELSE Normalize[a \o <<Sep>> \o b]

\* the absolute path string of a location
AbsString[loc \in Loc] == <<Sep>> \o JoinSep[loc]

\* the location an absolute path string names, "." and ".." resolved lexically
Location[p \in Str] == NormalizeSegs[Split[p], <<>>, FALSE]

\* path.dirname of the string of a location
Dirname[loc \in Loc] == IF loc = <<>> THEN <<>> ELSE SubSeq(loc, 1, Len(loc) - 1)

----------------------------------------------------------------------------
(* The file system the server runs on *)

nV   == <<"v">>
nV2  == <<"v", "2">>
nO   == <<"o">>
nS   == <<"s">>
nN   == <<"n">>
nH   == <<".", "h">>
nA   == <<"a", ".", "m", "d">>
nB   == <<"b", ".", "m", "d">>
nC   == <<"c", ".", "m", "d">>
nLf  == <<"l", "f">>
nLd  == <<"l", "d">>
nUp  == <<"u", "p">>
nUpV == <<"V">>
nTilde == <<"~">>

(*  /v            the vault (OBSIDIAN_VAULT_PATH)
    /v/a.md       a note
    /v/s          a folder,  /v/s/b.md a note in it
    /v/s/up       symbolic link to /v      (a link to its own ancestor)
    /v/.h         a hidden folder,  /v/.h/a.md a file in it
    /v/n          a folder without read and write permission (search only)
    /v/lf         symbolic link to the file /o/a.md, outside the vault
    /v/ld         symbolic link to the directory /o, outside the vault
    /v2           a sibling of the vault,  /v2/a.md a file in it
    /o            a directory outside the vault (the home directory),
    /o/a.md       a file in it                                              *)
Dirs == { <<>>, <<nV>>, <<nV, nS>>, <<nV, nH>>, <<nV, nN>>, <<nV2>>, <<nO>> }

\* directories whose mode is --x: readdir and file creation fail with EACCES
NoAccessDirs == { <<nV, nN>> }

Links == ( <<nV, nLf>>     :> <<nO, nA>>
        @@ <<nV, nLd>>     :> <<nO>>
        @@ <<nV, nS, nUp>> :> <<nV>> )

\* stored bytes of the files present when the server starts
InitFiles == ( <<nV, nA>>     :> <<"1">>
            @@ <<nV, nS, nB>> :> <<"2">>
            @@ <<nV, nH, nA>> :> <<"3">>
            @@ <<nV2, nA>>    :> <<"4">>
            @@ <<nO, nA>>     :> <<"5">> )

\* the order in which readdir returns the names of a directory
NameOrder == << nH, nA, nB, nC, nLd, nLf, nN, nS, nUp >>

\* process.env.OBSIDIAN_VAULT_PATH, process.cwd(), os.homedir()
ObsidianVaultPath == AbsString[<<nV>>]
Cwd == <<Sep>>
HomeDir == AbsString[<<nO>>]

Exists(loc) == loc \in Dirs \/ loc \in DOMAIN Links \/ loc \in DOMAIN files

Ok(loc) == [ok |-> TRUE, loc |-> loc, err |-> ""]
Fail(e) == [ok |-> FALSE, loc |-> <<>>, err |-> e]

\* resolution of the components rest below the real directory cur, following
\* every symbolic link met on the way (links hold absolute targets)
Resolve[cur \in Loc, rest \in Loc] ==
    IF rest = <<>> THEN Ok(cur)
    ELSE IF cur \notin Dirs THEN Fail("ENOTDIR")
    ELSE LET nxt == Append(cur, Head(rest))
         IN  IF nxt \in DOMAIN Links THEN Resolve[<<>>, Links[nxt] \o Tail(rest)]
             ELSE IF nxt \in Dirs \/ nxt \in DOMAIN files THEN Resolve[nxt, Tail(rest)]
             ELSE Fail("ENOENT")

RealpathResult(r) ==
    [ok |-> r.ok, path |-> IF r.ok THEN AbsString[r.loc] ELSE <<>>, err |-> r.err]

\* fs.realpath of an absolute path string
Realpath[p \in Str] == RealpathResult(Resolve[<<>>, Location[p]])

----------------------------------------------------------------------------
(* Startup: normalizePath, expandHome, vaultDirectories *)

\* normalizePath
normalizePath[p \in Str] == ToLowerCase[Normalize[p]]

\* path.resolve of one argument
PathResolve[p \in Str] ==
    AbsString[Location[IF IsAbsolute(p) THEN p ELSE Cwd \o <<Sep>> \o p]]

\* expandHome
expandHome[filepath \in Str] ==
    IF StartsWith(filepath, <<"~", Sep>>) \/ filepath = nTilde
      THEN PathJoin[HomeDir, SubSeq(filepath, 2, Len(filepath))]
      ELSE filepath

vaultDirectories == << normalizePath[PathResolve[expandHome[ObsidianVaultPath]]] >>

----------------------------------------------------------------------------
(* validatePath *)

ErrHidden   == "Access denied - hidden files/directories not allowed"
ErrOutside  == "Access denied - path outside allowed directories"
ErrSymlink  == "Access denied - symlink target outside allowed directories"
ErrParentOutside == "Access denied - parent directory outside allowed directories"
ErrNoParent == "Parent directory does not exist"

Valid(p, n)   == [ok |-> TRUE,  path |-> p,    err |-> "", fsCalls |-> n]
Invalid(e, n) == [ok |-> FALSE, path |-> <<>>, err |-> e,  fsCalls |-> n]

\* the hidden check applied to the directories of the path only
HasHiddenPartDirsOnly(requestedPath) ==
    LET pathParts == Split[requestedPath]
    IN  \E i \in 1..(Len(pathParts) - 1) : StartsWith(pathParts[i], Dot)

\* pathParts.some((part) => part.startsWith("."))
HasHiddenPart(requestedPath) ==
    LET pathParts == Split[requestedPath]
    IN  \E i \in 1..Len(pathParts) : StartsWith(pathParts[i], Dot)

\* vaultDirectories.some((dir) => normalized.startsWith(dir))
IsAllowed(normalized) ==
    \E i \in 1..Len(vaultDirectories) : StartsWith(normalized, vaultDirectories[i])

\* the catch block of validatePath: the parent directory of a path whose own
\* real path could not be used; every error of the inner try, the "Access
\* denied" it throws itself included, is replaced by ErrNoParent
ParentChecked(absolute, realParentPath) ==
    IF ~realParentPath.ok THEN Invalid(ErrNoParent, 2)
    ELSE IF ~IsAllowed(normalizePath[realParentPath.path]) THEN Invalid(ErrNoParent, 2)
    ELSE Valid(absolute, 2)

ValidateParent[absolute \in Str] ==
    ParentChecked(absolute, Realpath[AbsString[Dirname[Location[absolute]]]])

\* the first try block: a real path inside the vault is returned; when
\* realpath fails, and also when the "symlink target outside" error is thrown
\* inside the try, control passes to the catch
RealChecked(absolute, realPath) ==
    IF realPath.ok /\ IsAllowed(normalizePath[realPath.path]) THEN Valid(realPath.path, 1)
    ELSE ValidateParent[absolute]

\* the prefix check of the normalized absolute path, then the symlink check
ValidateAbsolute[absolute \in Str] ==
    IF ~IsAllowed(normalizePath[absolute]) THEN Invalid(ErrOutside, 0)
    ELSE RealChecked(absolute, Realpath[absolute])

\* validatePath; fsCalls counts the fs.realpath calls made
validatePath[requestedPath \in Str] ==
    IF HasHiddenPart(requestedPath) THEN Invalid(ErrHidden, 0)
    ELSE ValidateAbsolute[PathResolve[expandHome[requestedPath]]]

----------------------------------------------------------------------------
(* File contents: JavaScript strings (sequences of UTF-16 code units) stored *)
(* as UTF-8.  "HI" is a high surrogate (U+D800), "LO" a low surrogate        *)
(* (U+DC00), "FFFD" the replacement character; every other unit is ASCII.    *)

Replacement == <<"EF", "BF", "BD">>
Supplementary == <<"F0", "90", "80", "80">>

\* the "utf-8" encoding of fs.writeFile: a surrogate pair is one code point,
\* an unpaired surrogate is written as U+FFFD
Utf8Encode[s \in Str] ==
    IF s = <<>> THEN <<>>
    ELSE IF Len(s) >= 2 /\ s[1] = "HI" /\ s[2] = "LO"
      THEN Supplementary \o Utf8Encode[SubSeq(s, 3, Len(s))]
    ELSE IF s[1] \in {"HI", "LO", "FFFD"} THEN Replacement \o Utf8Encode[Tail(s)]
    ELSE <<s[1]>> \o Utf8Encode[Tail(s)]

\* the "utf-8" decoding of fs.readFile
Utf8Decode[b \in Str] ==
    IF b = <<>> THEN <<>>
    ELSE IF StartsWith(b, Supplementary)
      THEN <<"HI", "LO">> \o Utf8Decode[SubSeq(b, 5, Len(b))]
    ELSE IF StartsWith(b, Replacement)
      THEN <<"FFFD">> \o Utf8Decode[SubSeq(b, 4, Len(b))]
    ELSE IF b[1] \in {"EF", "BF", "BD", "F0", "90", "80"} THEN <<"FFFD">> \o Utf8Decode[Tail(b)]
    ELSE <<b[1]>> \o Utf8Decode[Tail(b)]

----------------------------------------------------------------------------
(* fs.readFile, fs.writeFile, fs.readdir *)

\* reading the file at the resolved location r
ReadResolved(r) ==
    IF ~r.ok THEN [ok |-> FALSE, err |-> r.err, loc |-> <<>>, content |-> <<>>]
    ELSE IF r.loc \notin DOMAIN files
      THEN [ok |-> FALSE, err |-> "EISDIR", loc |-> r.loc, content |-> <<>>]
    ELSE [ok |-> TRUE, err |-> "", loc |-> r.loc, content |-> Utf8Decode[files[r.loc]]]

\* fs.readFile(p, "utf-8"): loc is the real location of the file read
FsReadFile[p \in Str] == ReadResolved(Resolve[<<>>, Location[p]])

\* fs.writeFile(p, content, "utf-8") opens p with O_CREAT | O_TRUNC, following
\* symbolic links: loc is the real location written, after the files written
WriteFailed(e, loc) == [ok |-> FALSE, err |-> e, loc |-> loc, after |-> files]

\* the bytes added to what loc holds
StoreAppended(loc, bytes) ==
    [ok |-> TRUE, err |-> "", loc |-> loc,
     after |-> (loc :> ((IF loc \in DOMAIN files THEN files[loc] ELSE <<>>) \o bytes)) @@ files]

\* the bytes stored at loc, whatever it held before
Store(loc, bytes) == [ok |-> TRUE, err |-> "", loc |-> loc, after |-> (loc :> bytes) @@ files]

\* writing bytes to target, which resolves as r and whose parent resolves as rp
WriteResolved(target, r, rp, bytes) ==
    IF r.ok
      THEN IF r.loc \in DOMAIN files THEN Store(r.loc, bytes)
           ELSE WriteFailed("EISDIR", r.loc)
    ELSE IF target = <<>> \/ ~rp.ok THEN WriteFailed(r.err, <<>>)
    ELSE IF rp.loc \notin Dirs THEN WriteFailed("ENOTDIR", <<>>)
    ELSE IF rp.loc \in NoAccessDirs THEN WriteFailed("EACCES", <<>>)
    ELSE Store(Append(rp.loc, target[Len(target)]), bytes)

WriteAt[target \in Loc, bytes \in Str] ==
    WriteResolved(target, Resolve[<<>>, target], Resolve[<<>>, Dirname[target]], bytes)

FsWriteFile[p \in Str, content \in Str] == WriteAt[Location[p], Utf8Encode[content]]

\* the type of what the entry resolves to, as fs.stat gives it
DirentFollowsLinks(loc) == Resolve[<<>>, loc].ok /\ Resolve[<<>>, loc].loc \in Dirs

\* Dirent.isDirectory(): the type of the entry itself, a symbolic link to a
\* directory is not a directory
DirentIsDirectory(loc) == loc \in Dirs

\* fs.readdir(p, { withFileTypes: true }): dir is the real directory listed
\* the entries of the real directory dir, in readdir's order
Dirents(dir) ==
    LET present(n) == Exists(Append(dir, n))
        dirent(n) == [name |-> n, isDirectory |-> DirentIsDirectory(Append(dir, n))]
        names == SelectSeq(NameOrder, present)
    IN  [i \in 1..Len(names) |-> dirent(names[i])]

\* listing the directory at the resolved location r
ReaddirResolved(r) ==
    IF ~r.ok THEN [ok |-> FALSE, err |-> r.err, dir |-> <<>>, entries |-> <<>>]
    ELSE IF r.loc \notin Dirs
      THEN [ok |-> FALSE, err |-> "ENOTDIR", dir |-> r.loc, entries |-> <<>>]
    ELSE IF r.loc \in NoAccessDirs
      THEN [ok |-> FALSE, err |-> "EACCES", dir |-> r.loc, entries |-> <<>>]
    ELSE [ok |-> TRUE, err |-> "", dir |-> r.loc, entries |-> Dirents(r.loc)]

FsReaddir[p \in Str] == ReaddirResolved(Resolve[<<>>, Location[p]])

----------------------------------------------------------------------------
(* validatePath as a function of its argument: the candidate is drawn from  *)
(* the strings of at most MaxSegs components, absolute or relative          *)

CandNames == { nV, nV2, nO, nS, nH, nA, nC, nLf, nLd, nUp, nUpV, nTilde, DotDot }

CandSegs == UNION { [1..n -> CandNames] : n \in 0..MaxSegs }

Candidates ==
    { (IF abs THEN <<Sep>> ELSE <<>>) \o JoinSep[segs] : abs \in BOOLEAN, segs \in CandSegs }

NoReq == [op |-> "none"]
NoResp == [isError |-> FALSE, kind |-> "none"]
NoWrite == [path |-> <<>>, content |-> <<>>, any |-> FALSE, replaced |-> FALSE]
NoVisits == [d \in Dirs |-> 0]

Quiet ==
    /\ branches = <<>>
    /\ stack = <<>>
    /\ results = <<>>
    /\ visits = NoVisits
    /\ completed = <<>>
    /\ io = {}
    /\ lastWrite = NoWrite

InitValidate ==
    /\ Quiet
    /\ files = InitFiles
    /\ pc = "validating"
    /\ req \in { [op |-> "validatePath", path |-> c] : c \in Candidates }
    /\ resp = NoResp

\* one call of validatePath
Validate ==
    /\ pc = "validating"
    /\ pc' = "validated"
    /\ resp' = validatePath[req.path]
    /\ UNCHANGED <<files, req, branches, stack, results, visits, completed, io, lastWrite>>

NextValidate == Validate

SpecValidate == InitValidate /\ [][NextValidate]_vars

----------------------------------------------------------------------------
(* The CallToolRequestSchema handler.  One request is served at a time; the *)
(* branches of obsidian_read_notes run concurrently with one another.       *)

SEARCH_LIMIT == 200

\* path.join(vaultDirectories[0], filePath)
VaultPath[filePath \in Str] == PathJoin[vaultDirectories[1], filePath]

\* the outer catch: { content: [{ text: `Error: ${errorMessage}` }], isError: true }
ErrorResponse(msg) == [isError |-> TRUE, kind |-> "error", msg |-> msg]

\* the catch of obsidian_write_note: "Please specify the target directory.
\* Available directories:\n" followed by vaultDirectories
GuidanceResponse == [isError |-> TRUE, kind |-> "guidance", dirs |-> vaultDirectories]

\* `Note successfully written to ${path}`
WrittenResponse(path) == [isError |-> FALSE, kind |-> "written", path |-> path]

\* the response comes back to the caller; the handler's locals are gone
Return ==
    /\ pc = "responded"
    /\ pc' = "idle"
    /\ req' = NoReq
    /\ resp' = NoResp
    /\ branches' = <<>>
    /\ stack' = <<>>
    /\ results' = <<>>
    /\ visits' = NoVisits
    /\ completed' = <<>>
    /\ io' = {}
    /\ UNCHANGED <<files, lastWrite>>

(* obsidian_read_notes *)

\* `${filePath}:\n${content}\n`; src is the real location the content was read from
ContentItem(filePath, content, src) ==
    [path |-> filePath, error |-> FALSE, body |-> content, msg |-> "", src |-> src]

\* `${filePath}: Error - ${errorMessage}`
ErrorItem(filePath, msg) ==
    [path |-> filePath, error |-> TRUE, body |-> <<>>, msg |-> msg, src |-> <<>>]

Pending(filePath) == [st |-> "validate", validPath |-> <<>>, item |-> ErrorItem(filePath, "")]

\* parsed.data.paths.map(async (filePath) => ...): one branch per path
ReadNotes(paths) ==
    /\ pc = "idle"
    /\ pc' = "reading"
    /\ req' = [op |-> "read", paths |-> paths]
    /\ branches' = [i \in 1..Len(paths) |-> Pending(paths[i])]
    /\ UNCHANGED <<files, stack, results, visits, completed, resp, io, lastWrite>>

\* branch i without its try/catch: a validation error rejects Promise.all and
\* reaches the handler's outer catch
ReadValidateUncaught(i) ==
    /\ pc = "reading"
    /\ i \in 1..Len(branches)
    /\ branches[i].st = "validate"
    /\ \E v \in {validatePath[VaultPath[req.paths[i]]]} :
           IF v.ok
             THEN /\ branches' = [branches EXCEPT ![i].st = "read", ![i].validPath = v.path]
                  /\ UNCHANGED <<pc, resp>>
             ELSE /\ pc' = "responded"
                  /\ resp' = ErrorResponse(v.err)
                  /\ UNCHANGED branches
    /\ UNCHANGED <<files, req, stack, results, visits, completed, io, lastWrite>>

\* branch i: await validatePath(path.join(vaultDirectories[0], filePath))
ReadValidate(i) ==
    /\ pc = "reading"
    /\ i \in 1..Len(branches)
    /\ branches[i].st = "validate"
    /\ \E v \in {validatePath[VaultPath[req.paths[i]]]} :
           IF v.ok
             THEN /\ branches' = [branches EXCEPT ![i].st = "read", ![i].validPath = v.path]
                  /\ UNCHANGED completed
             ELSE /\ branches' = [branches EXCEPT ![i].st = "done",
                                                  ![i].item = ErrorItem(req.paths[i], v.err)]
                  /\ completed' = Append(completed, i)
    /\ UNCHANGED <<files, pc, req, stack, results, visits, resp, io, lastWrite>>

\* branch i: await fs.readFile(validPath, "utf-8")
ReadFile(i) ==
    /\ pc = "reading"
    /\ i \in 1..Len(branches)
    /\ branches[i].st = "read"
    /\ \E r \in {FsReadFile[branches[i].validPath]} :
           /\ branches' = [branches EXCEPT
                 ![i].st = "done",
                 ![i].item = IF r.ok THEN ContentItem(req.paths[i], r.content, r.loc)
                             ELSE ErrorItem(req.paths[i], r.err)]
           /\ io' = io \cup {[op |-> "read", path |-> branches[i].validPath,
                              loc |-> r.loc, err |-> r.err]}
    /\ completed' = Append(completed, i)
    /\ UNCHANGED <<files, pc, req, stack, results, visits, resp, lastWrite>>

\* Promise.all resolves with the branches' values in the order of paths;
\* the handler joins them with "\n---\n" into one text
ReadRespond ==
    /\ pc = "reading"
    /\ \A i \in 1..Len(branches) : branches[i].st = "done"
    /\ pc' = "responded"
    /\ resp' = [isError |-> FALSE, kind |-> "read",
                items |-> [i \in 1..Len(branches) |-> branches[i].item]]
    /\ UNCHANGED <<files, req, branches, stack, results, visits, completed, io, lastWrite>>

(* obsidian_write_note *)

\* obsidian_write_note without its own catch: the error reaches the outer catch
WriteNoteUncaught(path, content) ==
    /\ pc = "idle"
    /\ pc' = "responded"
    /\ req' = [op |-> "write", path |-> path, content |-> content]
    /\ \E v \in {validatePath[VaultPath[path]]} :
         IF ~v.ok
           THEN /\ resp' = ErrorResponse(v.err)
                /\ UNCHANGED <<files, io, lastWrite>>
         ELSE \E w \in {FsWriteFile[v.path, content]} :
           IF ~w.ok
             THEN /\ resp' = ErrorResponse(w.err)
                  /\ io' = {[op |-> "write", path |-> v.path, loc |-> w.loc, err |-> w.err]}
                  /\ UNCHANGED <<files, lastWrite>>
           ELSE /\ resp' = WrittenResponse(path)
                /\ files' = w.after
                /\ io' = {[op |-> "write", path |-> v.path, loc |-> w.loc, err |-> ""]}
                /\ lastWrite' = [path |-> path, content |-> content, any |-> TRUE,
                                 replaced |-> /\ lastWrite.any
                                              /\ lastWrite.path = path
                                              /\ lastWrite.content # content]
    /\ UNCHANGED <<branches, stack, results, visits, completed>>

\* the try block, and the catch that answers every failure with the guidance
WriteNote(path, content) ==
    /\ pc = "idle"
    /\ pc' = "responded"
    /\ req' = [op |-> "write", path |-> path, content |-> content]
    /\ \E v \in {validatePath[VaultPath[path]]} :
         IF ~v.ok
           THEN /\ resp' = GuidanceResponse
                /\ UNCHANGED <<files, io, lastWrite>>
         ELSE \E w \in {FsWriteFile[v.path, content]} :
           IF ~w.ok
             THEN /\ resp' = GuidanceResponse
                  /\ io' = {[op |-> "write", path |-> v.path, loc |-> w.loc, err |-> w.err]}
                  /\ UNCHANGED <<files, lastWrite>>
           ELSE /\ resp' = WrittenResponse(path)
                /\ files' = w.after
                /\ io' = {[op |-> "write", path |-> v.path, loc |-> w.loc, err |-> ""]}
                /\ lastWrite' = [path |-> path, content |-> content, any |-> TRUE,
                                 replaced |-> /\ lastWrite.any
                                              /\ lastWrite.path = path
                                              /\ lastWrite.content # content]
    /\ UNCHANGED <<branches, stack, results, visits, completed>>

(* obsidian_search_notes: searchNotes / search *)

\* query.replace(/[*]/g, ".*")
RegExpSource[query \in Str] ==
    IF query = <<>> THEN <<>>
    ELSE (IF query[1] = "*" THEN <<".", "*">> ELSE <<query[1]>>) \o RegExpSource[Tail(query)]

\* new RegExp(source, "i") throws for an unterminated character class.  The
\* queries of the model are written with letters, ".", "*" and "[" only, so
\* after the replacement every "*" follows a "." and "[" is the one way for
\* a source to be invalid.
RegExpValid(source) == ~Includes(source, <<"[">>)

\* whether the pattern, matched from its first atom, matches a prefix of s:
\* an atom is a letter or "." (any character), possibly followed by "*"
MatchHere[source \in Str, s \in Str] ==
    IF source = <<>> THEN TRUE
    ELSE LET atomOk(c) == source[1] = "." \/ LowerChar(source[1]) = LowerChar(c)
         IN  IF Len(source) >= 2 /\ source[2] = "*"
               THEN \E k \in 0..Len(s) :
                       /\ \A j \in 1..k : atomOk(s[j])
                       /\ MatchHere[SubSeq(source, 3, Len(source)), SubSeq(s, k + 1, Len(s))]
             ELSE /\ s # <<>>
                  /\ atomOk(s[1])
                  /\ MatchHere[Tail(source), Tail(s)]

\* new RegExp(source, "i").test(s): a match starting anywhere in s
RegExpTest(source, s) ==
    \E start \in 1..(Len(s) + 1) : MatchHere[source, SubSeq(s, start, Len(s))]

\* matches: substring, or the query as a pattern; an invalid pattern is ignored
Matches(query, name) ==
    \/ Includes(ToLowerCase[name], ToLowerCase[query])
    \/ (RegExpValid(RegExpSource[query]) /\ RegExpTest(RegExpSource[query], name))

DotMd == <<".", "m", "d">>

Frame(path, listing) == [path |-> path, entries |-> listing.entries]

Visit(dir) == [visits EXCEPT ![dir] = @ + 1]

Top == stack[Len(stack)]
Pop == SubSeq(stack, 1, Len(stack) - 1)
\* the top frame moves to its next entry
Advance == [stack EXCEPT ![Len(stack)].entries = Tail(@)]

\* searchNotes(query): search(dir, dir) for the one vault directory; a failure
\* of the first readdir propagates to the handler's outer catch
SearchNotes(query) ==
    /\ pc = "idle"
    /\ req' = [op |-> "search", query |-> query]
    /\ \E listing \in {FsReaddir[vaultDirectories[1]]} :
           IF listing.ok
             THEN /\ pc' = "searching"
                  /\ stack' = <<Frame(vaultDirectories[1], listing)>>
                  /\ visits' = Visit(listing.dir)
                  /\ UNCHANGED resp
             ELSE /\ pc' = "responded"
                  /\ resp' = ErrorResponse(listing.err)
                  /\ UNCHANGED <<stack, visits>>
    /\ UNCHANGED <<files, branches, results, completed, io, lastWrite>>

\* search with its try/catch around the loop instead of inside it: an entry
\* that fails validatePath ends the listing of its directory
SearchStepAbortsDirectory ==
    /\ pc = "searching"
    /\ stack # <<>>
    /\ IF Top.entries = <<>>
         THEN /\ stack' = Pop
              /\ UNCHANGED <<results, visits>>
       ELSE \E entry \in {Head(Top.entries)} :
            \E fullPath \in {PathJoin[Top.path, entry.name]} :
            \E v \in {validatePath[fullPath]}, listing \in {FsReaddir[fullPath]} :
                IF ~v.ok
                  THEN /\ stack' = Pop
                       /\ UNCHANGED <<results, visits>>
                ELSE /\ results' =
                          IF EndsWith(entry.name, DotMd) /\ Matches(req.query, entry.name)
                            THEN Append(results, ReplaceFirst(fullPath, vaultDirectories[1]))
                            ELSE results
                     /\ IF entry.isDirectory /\ listing.ok
                          THEN /\ stack' = Append(Advance, Frame(fullPath, listing))
                               /\ visits' = Visit(listing.dir)
                          ELSE /\ stack' = Advance
                               /\ UNCHANGED visits
    /\ UNCHANGED <<files, pc, req, branches, completed, resp, io, lastWrite>>

\* search: one iteration of `for (const entry of entries)`, or the return from
\* search(basePath, currentPath) when the entries are exhausted
SearchStep ==
    /\ pc = "searching"
    /\ stack # <<>>
    /\ IF Top.entries = <<>>
         THEN /\ stack' = Pop
              /\ UNCHANGED <<results, visits>>
       ELSE \E entry \in {Head(Top.entries)} :
            \E fullPath \in {PathJoin[Top.path, entry.name]} :
            \E v \in {validatePath[fullPath]}, listing \in {FsReaddir[fullPath]} :
                IF ~v.ok
                  \* Skip invalid paths during search
                  THEN /\ stack' = Advance
                       /\ UNCHANGED <<results, visits>>
                ELSE /\ results' =
                          IF EndsWith(entry.name, DotMd) /\ Matches(req.query, entry.name)
                            THEN Append(results, ReplaceFirst(fullPath, vaultDirectories[1]))
                            ELSE results
                     /\ IF entry.isDirectory /\ listing.ok
                          THEN /\ stack' = Append(Advance, Frame(fullPath, listing))
                               /\ visits' = Visit(listing.dir)
                          \* not a directory, or readdir threw inside the try
                          ELSE /\ stack' = Advance
                               /\ UNCHANGED visits
    /\ UNCHANGED <<files, pc, req, branches, completed, resp, io, lastWrite>>

Take(s, n) == SubSeq(s, 1, IF Len(s) < n THEN Len(s) ELSE n)

\* results.slice(0, SEARCH_LIMIT), "No matches found" for none, and the count
\* of the results not shown
SearchRespond ==
    /\ pc = "searching"
    /\ stack = <<>>
    /\ pc' = "responded"
    /\ resp' = [isError |-> FALSE, kind |-> "search",
                items |-> Take(results, SEARCH_LIMIT),
                noMatches |-> results = <<>>,
                notShown |-> IF Len(results) > SEARCH_LIMIT
                               THEN Len(results) - SEARCH_LIMIT ELSE 0]
    /\ UNCHANGED <<files, req, branches, stack, results, visits, completed, io, lastWrite>>

(* obsidian_read_notes_dir: listDirs *)

\* validatePath of the argument, then listDirs(validPath); a failure of either
\* propagates to the handler's outer catch
ReadNotesDir(path) ==
    /\ pc = "idle"
    /\ req' = [op |-> "list", path |-> path]
    /\ \E v \in {validatePath[VaultPath[path]]} :
         IF ~v.ok
           THEN /\ pc' = "responded"
                /\ resp' = ErrorResponse(v.err)
                /\ UNCHANGED <<stack, visits>>
         ELSE \E listing \in {FsReaddir[v.path]} :
           IF ~listing.ok
             THEN /\ pc' = "responded"
                  /\ resp' = ErrorResponse(listing.err)
                  /\ UNCHANGED <<stack, visits>>
           ELSE /\ pc' = "listing"
                /\ stack' = <<Frame(v.path, listing)>>
                /\ visits' = Visit(listing.dir)
                /\ UNCHANGED resp
    /\ UNCHANGED <<files, branches, results, completed, io, lastWrite>>

\* listDirs: one iteration of `for (const entry of entries)`, or the return
\* from listDirs(currentPath) when the entries are exhausted
ListDirsStep ==
    /\ pc = "listing"
    /\ stack # <<>>
    /\ IF Top.entries = <<>>
         THEN /\ stack' = Pop
              /\ UNCHANGED <<results, visits>>
       ELSE \E entry \in {Head(Top.entries)} :
            \E fullPath \in {PathJoin[Top.path, entry.name]} :
            \E v \in {validatePath[fullPath]}, listing \in {FsReaddir[fullPath]} :
                IF ~entry.isDirectory \/ ~v.ok
                  THEN /\ stack' = Advance
                       /\ UNCHANGED <<results, visits>>
                ELSE /\ results' = Append(results, ReplaceFirst(fullPath, vaultDirectories[1]))
                     /\ IF listing.ok
                          THEN /\ stack' = Append(Advance, Frame(fullPath, listing))
                               /\ visits' = Visit(listing.dir)
                          ELSE /\ stack' = Advance
                               /\ UNCHANGED visits
    /\ UNCHANGED <<files, pc, req, branches, completed, resp, io, lastWrite>>

\* dirs.join("\n")
ListDirsRespond ==
    /\ pc = "listing"
    /\ stack = <<>>
    /\ pc' = "responded"
    /\ resp' = [isError |-> FALSE, kind |-> "list", items |-> results]
    /\ UNCHANGED <<files, req, branches, stack, results, visits, completed, io, lastWrite>>

----------------------------------------------------------------------------
(* The server: requests with arguments drawn from small sets *)

\* filePath arguments: strings of names separated by "/"
Arg(segs) == JoinSep[segs]

ReadArgs == { Arg(<<nA>>), Arg(<<nC>>), Arg(<<nS>>), Arg(<<nLf>>),
              Arg(<<DotDot, nV2, nA>>), Arg(<<DotDot, nO, nA>>) }

WriteArgs == { Arg(<<nA>>), Arg(<<nC>>), Arg(<<nLf>>), Arg(<<nS>>), Arg(<<nN, nC>>),
               Arg(<<nH, nA>>), Arg(<<DotDot, nO, nA>>) }

Contents == { <<"a">>, <<"HI", "LO">>, <<"HI">> }

Queries == { <<>>, <<"B">>, <<"a", "*", "d">>, <<"[">> }

DirArgs == { <<>>, Arg(<<nS>>), Arg(<<nS, nUp>>), Arg(<<DotDot, nV2>>), Arg(<<nA>>), Arg(<<nH>>) }

Init ==
    /\ Quiet
    /\ files = InitFiles
    /\ pc = "idle"
    /\ req = NoReq
    /\ resp = NoResp

Next ==
    \/ \E p \in ReadArgs : ReadNotes(<<p>>)
    \/ \E i \in 1..MaxPaths : ReadValidate(i)
    \/ \E i \in 1..MaxPaths : ReadFile(i)
    \/ ReadRespond
    \/ \E p \in WriteArgs, c \in Contents : WriteNote(p, c)
    \/ \E q \in Queries : SearchNotes(q)
    \/ SearchStep
    \/ SearchRespond
    \/ \E p \in DirArgs : ReadNotesDir(p)
    \/ ListDirsStep
    \/ ListDirsRespond
    \/ Return

Spec == Init /\ [][Next]_vars

(* obsidian_read_notes alone, with up to MaxPaths paths in one request *)

BatchArgs == { Arg(<<nA>>), Arg(<<nC>>), Arg(<<nS>>), Arg(<<DotDot, nO, nA>>) }

PathLists == UNION { [1..n -> BatchArgs] : n \in 0..MaxPaths }

NextRead ==
    \/ \E ps \in PathLists : ReadNotes(ps)
    \/ \E i \in 1..MaxPaths : ReadValidate(i)
    \/ \E i \in 1..MaxPaths : ReadFile(i)
    \/ ReadRespond
    \/ Return

SpecRead == Init /\ [][NextRead]_vars

(* The event loop runs every continuation that is ready: a walk that can    *)
(* take a step takes it, and a handler whose walk is over responds.         *)
FairSpec ==
    /\ Spec
    /\ WF_vars(SearchStep)
    /\ WF_vars(SearchRespond)
    /\ WF_vars(ListDirsStep)
    /\ WF_vars(ListDirsRespond)

----------------------------------------------------------------------------
(* Confinement *)

IsPrefix(a, b) == Len(a) <= Len(b) /\ SubSeq(b, 1, Len(a)) = a

\* the real location of the vault directory
VaultReal == Resolve[<<>>, Location[vaultDirectories[1]]].loc

\* a real location is the vault directory or lies below it
Confined(loc) == IsPrefix(VaultReal, loc)

AccessDeniedErrs == { ErrHidden, ErrOutside, ErrSymlink, ErrParentOutside }

\* the location a candidate names before any symbolic link is followed
CandidateLocation(p) == Location[PathResolve[expandHome[p]]]

Fold(loc) == [i \in 1..Len(loc) |-> ToLowerCase[loc[i]]]

\* the candidate names the vault directory or a path below it, compared
\* component by component without regard to case
LexicallyInside(p) == IsPrefix(Fold(Location[vaultDirectories[1]]), Fold(CandidateLocation(p)))

\* symbolic links located in the vault whose target is outside of it
EscapingLinks == { l \in DOMAIN Links : Confined(l) /\ ~Confined(Resolve[<<>>, Links[l]].loc) }

\* the candidate's path has such a link as a component
ThroughEscapingLink(p) ==
    \E k \in 1..Len(CandidateLocation(p)) : SubSeq(CandidateLocation(p), 1, k) \in EscapingLinks

\* a "." at the start of the string or right after a separator
DotStartsSegment(s) == \E i \in 1..Len(s) : s[i] = "." /\ (i = 1 \/ s[i - 1] = Sep)

Denied(r) == ~r.ok /\ r.err \in AccessDeniedErrs

----------------------------------------------------------------------------
(* C1 (Spec): every file the handlers read or wrote has its real location   *)
(* in the vault, and every content item of a response was read from a file  *)
(* in the vault.                                                            *)
C1_OnlyVaultFilesTouched ==
    /\ \A e \in io : e.err = "" => Confined(e.loc)
    /\ (pc = "responded" /\ resp.kind = "read") =>
         \A i \in 1..Len(resp.items) : ~resp.items[i].error => Confined(resp.items[i].src)

(* C2 (SpecValidate): validatePath fails with an "Access denied" error for  *)
(* every candidate that has, as its last or as an inner component, a        *)
(* symbolic link of the vault whose target is outside the vault.            *)
C2_EscapingLinkDenied ==
    (pc = "validated" /\ ThroughEscapingLink(req.path)) => Denied(resp)

(* C3 (SpecValidate): validatePath fails with an "Access denied" error for  *)
(* every candidate that names neither the vault directory nor a path below  *)
(* it.                                                                      *)
C3_OutsideDenied ==
    (pc = "validated" /\ ~LexicallyInside(req.path)) => Denied(resp)

(* C4 (SpecValidate): a candidate with a component that starts with "." is  *)
(* refused with an "Access denied" error before any file-system call,       *)
(* whether or not it names something that exists.                           *)
C4_HiddenDenied ==
    (pc = "validated" /\ DotStartsSegment(req.path)) =>
        (Denied(resp) /\ resp.err = ErrHidden /\ resp.fsCalls = 0)

\* a hidden last component has been refused, of a file that exists
C4_Witness ==
    /\ pc = "validated"
    /\ req.path = AbsString[<<nV, nH, nA>>]
    /\ Realpath[req.path].ok
    /\ resp.err = ErrHidden

----------------------------------------------------------------------------
(* What validating and reading one path alone gives *)
ItemRead(filePath, r) ==
    IF r.ok THEN ContentItem(filePath, r.content, r.loc) ELSE ErrorItem(filePath, r.err)

ItemValidated(filePath, v) ==
    IF v.ok THEN ItemRead(filePath, FsReadFile[v.path]) ELSE ErrorItem(filePath, v.err)

ItemFor(filePath) == ItemValidated(filePath, validatePath[VaultPath[filePath]])

(* C5 (SpecRead): the response of obsidian_read_notes is not an error and   *)
(* holds one item per path, item i being what validating and reading path i *)
(* alone gives: the content, or that path's own error, whatever the order   *)
(* in which the branches completed.                                         *)
C5_OneItemPerPath ==
    (pc = "responded" /\ req.op = "read") =>
        /\ ~resp.isError
        /\ resp.kind = "read"
        /\ Len(resp.items) = Len(req.paths)
        /\ \A i \in 1..Len(req.paths) : resp.items[i] = ItemFor(req.paths[i])

\* the second branch completed before the first, the first path failed and
\* the second was read
C5_Witness ==
    /\ pc = "responded"
    /\ req.op = "read"
    /\ Len(req.paths) >= 2
    /\ completed[1] = 2
    /\ resp.items[1].error
    /\ ~resp.items[2].error

----------------------------------------------------------------------------
(* C6 (Spec): an obsidian_write_note whose path fails validatePath leaves   *)
(* every file as it was and answers with the guidance response, which is    *)
(* flagged as an error and lists the vault directories.                     *)
C6_InvalidWriteChangesNothing ==
    [][ ( /\ pc = "idle"
          /\ req'.op = "write"
          /\ ~validatePath[VaultPath[req'.path]].ok )
        => ( /\ files' = files
             /\ pc' = "responded"
             /\ resp' = GuidanceResponse
             /\ resp'.isError
             /\ resp'.dirs = vaultDirectories ) ]_vars

C6_Witness ==
    /\ pc = "responded"
    /\ req.op = "write"
    /\ ~validatePath[VaultPath[req.path]].ok
    /\ resp = GuidanceResponse
    /\ files = InitFiles

(* C7 (Spec): when the path of obsidian_write_note is valid and writeFile   *)
(* fails, the response is an error that carries writeFile's message.        *)
C7_WriteFailureSurfaced ==
    (pc = "responded" /\ req.op = "write") =>
        \A e \in io : e.err # "" => (resp.kind = "error" /\ resp.msg = e.err)

----------------------------------------------------------------------------
\* item i of the response holds what the last write wrote
ReadsBack(i) ==
    /\ ~resp.items[i].error
    /\ resp.items[i].path = lastWrite.path
    /\ resp.items[i].body = lastWrite.content

(* C8 as claimed (Spec): reading the path of the last successful            *)
(* obsidian_write_note gives an item without error that holds exactly the   *)
(* content written, for every content.                                      *)
C8_RoundTripAnyContent ==
    (pc = "responded" /\ req.op = "read" /\ lastWrite.any) =>
        \A i \in 1..Len(req.paths) : req.paths[i] = lastWrite.path => ReadsBack(i)

\* no surrogate code unit without its partner
WellFormed(s) ==
    \A i \in 1..Len(s) :
        /\ s[i] = "HI" => (i < Len(s) /\ s[i + 1] = "LO")
        /\ s[i] = "LO" => (i > 1 /\ s[i - 1] = "HI")

(* C8 amended (Spec): reading the path of the last successful               *)
(* obsidian_write_note gives an item without error that holds exactly the   *)
(* content written, when the content is a well-formed UTF-16 string; a      *)
(* second write to the path replaces what the first wrote.                  *)
C8_RoundTripWellFormed ==
    (pc = "responded" /\ req.op = "read" /\ lastWrite.any /\ WellFormed(lastWrite.content)) =>
        \A i \in 1..Len(req.paths) : req.paths[i] = lastWrite.path => ReadsBack(i)

\* a second write to the same path replaced the first one's content, in a
\* file that did not exist when the server started, and was read back
C8_Witness ==
    /\ pc = "responded"
    /\ req.op = "read"
    /\ lastWrite.any
    /\ lastWrite.replaced
    /\ WellFormed(lastWrite.content)
    /\ req.paths[1] = lastWrite.path
    /\ lastWrite.path = Arg(<<nC>>)
    /\ ReadsBack(1)

----------------------------------------------------------------------------
(* The walks of obsidian_search_notes and obsidian_read_notes_dir *)

Walking == pc \in {"searching", "listing"}

(* C9 (FairSpec): a walk that has started ends with a response, and no      *)
(* directory is listed more than once by one walk; the vault holds a        *)
(* symbolic link to the vault itself.                                       *)
C9_WalkEnds ==
    /\ Walking ~> (pc = "responded")
    /\ [](\A d \in Dirs : visits[d] <= 1)

\* a walk has listed the folder that holds the link to its ancestor, and has
\* responded
C9_Witness ==
    /\ pc = "responded"
    /\ req.op \in {"search", "list"}
    /\ ~resp.isError
    /\ <<nV, nS, nUp>> \in DOMAIN Links
    /\ Confined(Links[<<nV, nS, nUp>>]) /\ IsPrefix(Links[<<nV, nS, nUp>>], <<nV, nS>>)
    /\ visits[<<nV, nS>>] = 1
    /\ visits[<<nV>>] = 1

\* what a walk started at the path string start, a directory whose real
\* location is top, meets below it: a walk does not follow links, so the
\* entry at location loc has the path start/suffix
AllLocs == Dirs \cup DOMAIN Links \cup DOMAIN files

Below(top) == { loc \in AllLocs : IsPrefix(top, loc) /\ loc # top }

EntryPath(start, top, loc) == PathJoin[start, JoinSep[SubSeq(loc, Len(top) + 1, Len(loc))]]

EntryValid(start, top, loc) == validatePath[EntryPath(start, top, loc)].ok

\* the walk enters the directory loc: it is valid and can be listed
Entered(start, top, loc) ==
    loc \in Dirs /\ loc \notin NoAccessDirs /\ EntryValid(start, top, loc)

\* the walk comes to the entry loc: it entered every directory above it
Met(start, top, loc) ==
    \A k \in (Len(top) + 1)..(Len(loc) - 1) : Entered(start, top, SubSeq(loc, 1, k))

Name(loc) == loc[Len(loc)]

\* the entries a search must report
SearchExpected(query) ==
    { ReplaceFirst(EntryPath(vaultDirectories[1], VaultReal, loc), vaultDirectories[1]) :
        loc \in { l \in Below(VaultReal) :
                    /\ Met(vaultDirectories[1], VaultReal, l)
                    /\ EntryValid(vaultDirectories[1], VaultReal, l)
                    /\ EndsWith(Name(l), DotMd)
                    /\ Matches(query, Name(l)) } }

\* the directories listDirs(start) must report
ListExpected(start, top) ==
    { ReplaceFirst(EntryPath(start, top, loc), vaultDirectories[1]) :
        loc \in { l \in Below(top) :
                    /\ Met(start, top, l)
                    /\ l \in Dirs
                    /\ EntryValid(start, top, l) } }

\* the directories below top that the walk must not list: an entry that
\* fails validation, and everything under it or under a directory that
\* cannot be listed
NotEntered(start, top) ==
    { d \in Below(top) \cap Dirs : ~(Met(start, top, d) /\ Entered(start, top, d)) }

Reported == { results[i] : i \in 1..Len(results) }

ListStart == validatePath[VaultPath[req.path]].path

(* C10 (Spec): a walk whose starting directory could be listed answers      *)
(* without error, reports exactly the entries that pass validatePath, match *)
(* and are met by entering only directories that pass validatePath and can  *)
(* be listed, and lists no directory that fails validatePath, cannot be     *)
(* listed, or lies under one that does.                                     *)
C10_WalkSkipsOnlyFailures ==
    /\ (pc = "responded" /\ req.op = "search") =>
          /\ ~resp.isError
          /\ Reported = SearchExpected(req.query)
          /\ \A d \in NotEntered(vaultDirectories[1], VaultReal) : visits[d] = 0
    /\ (pc = "responded" /\ req.op = "list" /\ validatePath[VaultPath[req.path]].ok
          /\ FsReaddir[ListStart].ok) =>
          /\ ~resp.isError
          /\ Reported = ListExpected(ListStart, FsReaddir[ListStart].dir)
          /\ \A d \in NotEntered(ListStart, FsReaddir[ListStart].dir) : visits[d] = 0

\* a search met the hidden folder, which fails validatePath, and the folder
\* that cannot be listed, and still reported the note of the folder after them
C10_Witness ==
    /\ pc = "responded"
    /\ req.op = "search"
    /\ ~resp.isError
    /\ ~validatePath[AbsString[<<nV, nH>>]].ok
    /\ visits[<<nV, nH>>] = 0
    /\ visits[<<nV, nN>>] = 0
    /\ visits[<<nV, nS>>] = 1
    /\ ReplaceFirst(AbsString[<<nV, nS, nB>>], vaultDirectories[1]) \in Reported

====
